---- MODULE Spec2Model ----
(***************************************************************************)
(* Model of rusty-portfolio-manager (src/src/main.rs).                     *)
(*                                                                         *)
(* The program reads data.json, prints the current allocation of every     *)
(* holding, a two-pass list of purchase recommendations for a new          *)
(* contribution, and a retirement projection.  All money arithmetic in the *)
(* source is IEEE-754 binary64 (f64).  The model keeps the IEEE semantics  *)
(* (round to nearest, ties to even, gradual underflow, overflow to         *)
(* infinity, NaN) on a binary format with a narrower significand and       *)
(* exponent range, so that rounding, infinities and NaN are reachable with *)
(* small inputs.  Signed zero is collapsed to one zero: the modelled       *)
(* inputs are non-negative quotes, shares, allocations and exchange rates, *)
(* for which no operation of the program tells the two zeros apart.        *)
(***************************************************************************)
EXTENDS Integers, Sequences, FiniteSets, TLC

(* ------------------------------------------------------------------ *)
(* Floating point format                                               *)
(* ------------------------------------------------------------------ *)

\* Significand width in bits (f64 has 53).
Precision == 5
\* A finite value is an integer multiple m of 2^-FracBits (the subnormal spacing).
FracBits == 8
\* Largest binary exponent of a finite value: every finite value is below 2^(MaxExp+1).
MaxExp == 6

RECURSIVE Pow2(_)
Pow2(n) == IF n = 0 THEN 1 ELSE 2 * Pow2(n - 1)

Unit == Pow2(FracBits)
MaxFinite == (Pow2(Precision) - 1) * Pow2(MaxExp + 1 + FracBits - Precision)

Abs(x) == IF x < 0 THEN -x ELSE x
Sgn(x) == IF x < 0 THEN -1 ELSE IF x > 0 THEN 1 ELSE 0

Fin(m) == [k |-> "fin", m |-> m]
NaN == [k |-> "nan", m |-> 0]
Inf(s) == [k |-> "inf", m |-> s]
Zero == Fin(0)

IsNaN(a) == a.k = "nan"
IsInf(a) == a.k = "inf"
IsFin(a) == a.k = "fin"

\* Smallest power of two Q >= q such that A / (d * Q) < 2^Precision.
RECURSIVE Quantum(_, _, _)
Quantum(A, d, q) ==
    IF A < Pow2(Precision) * d * q THEN q ELSE Quantum(A, d, 2 * q)

\* A / D rounded to the nearest integer, ties to even.
RoundHalfEven(A, D) ==
    LET fl == A \div D
        r  == A % D
    IN  IF 2 * r > D \/ (2 * r = D /\ fl % 2 = 1) THEN fl + 1 ELSE fl

\* The exact rational N / d (in units of 2^-FracBits, d > 0) rounded to the format.
Round(N, d) ==
    LET A == Abs(N)
        Q == Quantum(A, d, 1)
        r == RoundHalfEven(A, d * Q) * Q
    IN  IF r > MaxFinite THEN Inf(Sgn(N)) ELSE Fin(Sgn(N) * r)

Fneg(a) == IF IsNaN(a) THEN NaN ELSE [k |-> a.k, m |-> -a.m]

Fadd(a, b) ==
    IF IsNaN(a) \/ IsNaN(b) THEN NaN
    ELSE IF IsInf(a) /\ IsInf(b) THEN (IF a.m = b.m THEN a ELSE NaN)
    ELSE IF IsInf(a) THEN a
    ELSE IF IsInf(b) THEN b
    ELSE Round(a.m + b.m, 1)

Fsub(a, b) == Fadd(a, Fneg(b))

Fmul(a, b) ==
    IF IsNaN(a) \/ IsNaN(b) THEN NaN
    ELSE IF IsInf(a) \/ IsInf(b)
         THEN (IF a.m = 0 \/ b.m = 0 THEN NaN ELSE Inf(Sgn(a.m) * Sgn(b.m)))
    ELSE Round(a.m * b.m, Unit)

Fdiv(a, b) ==
    IF IsNaN(a) \/ IsNaN(b) THEN NaN
    ELSE IF IsInf(a) /\ IsInf(b) THEN NaN
    ELSE IF IsInf(a) THEN Inf(a.m * (IF b.m < 0 THEN -1 ELSE 1))
    ELSE IF IsInf(b) THEN Zero
    ELSE IF b.m = 0 THEN (IF a.m = 0 THEN NaN ELSE Inf(Sgn(a.m)))
    ELSE Round(Sgn(b.m) * a.m * Unit, Abs(b.m))

\* Position of a non-NaN value on the extended real line.
Key(a) == IF IsInf(a) THEN a.m * (MaxFinite + 1) ELSE a.m

Flt(a, b) == ~IsNaN(a) /\ ~IsNaN(b) /\ Key(a) < Key(b)
Fle(a, b) == ~IsNaN(a) /\ ~IsNaN(b) /\ Key(a) <= Key(b)
Fgt(a, b) == Flt(b, a)

\* i64 -> f64 (`as f64`): nearest value of the format.
FromInt(n) == Round(n * Unit, 1)

\* Stand-in for i64::MAX, the value a saturating `as i64` yields for +infinity.
I64Max == 2147483647

\* f64 -> i64 (`as i64`): truncates toward zero, saturates, NaN becomes 0.
ToInt(a) ==
    IF IsNaN(a) THEN 0
    ELSE IF IsInf(a) THEN (IF a.m > 0 THEN I64Max ELSE -I64Max - 1)
    ELSE Sgn(a.m) * (Abs(a.m) \div Unit)

\* The literal 100.0 of the source.
Hundred == FromInt(100)

(* ------------------------------------------------------------------ *)
(* Input snapshots                                                     *)
(* ------------------------------------------------------------------ *)

\* Largest number of holdings in a snapshot.
MaxStocks == 2

\* n / 4 as a value of the format (n / 4 is representable for the n used below).
Quarter(n) == Fin(n * (Unit \div 4))

Symbols == <<"A", "B", "C", "D">>
Quotes == {Zero, FromInt(4), FromInt(10)}
Shares == {0, 2}
Targets == {FromInt(50), FromInt(100)}
Rates == {Quarter(6)}
Contributions == {FromInt(10), FromInt(27)}

\* struct Stock; the symbol is an identifier, so position i carries Symbols[i].
StockAt(i) ==
    [symbol : {Symbols[i]}, quote : Quotes, number_of_shares : Shares,
     target_allocation : Targets, is_usd : BOOLEAN]

StockLists ==
    UNION {{s \in [1..n -> UNION {StockAt(i) : i \in 1..n}] :
                \A i \in 1..n : s[i] \in StockAt(i)} : n \in 0..MaxStocks}

\* struct Data, restricted to the fields the modelled computations read.
DataSet ==
    [stocks : StockLists, usd_to_cad_exchange_rate : Rates,
     expected_contribution : Contributions]

NoData == [stocks |-> <<>>, usd_to_cad_exchange_rate |-> Zero,
           expected_contribution |-> Zero]

(* ------------------------------------------------------------------ *)
(* Pure functions of the source                                        *)
(* ------------------------------------------------------------------ *)

calc_value_of_stock(stock, usd_to_cad_exchange_rate) ==
    IF stock.is_usd
    THEN Fmul(Fmul(stock.quote, FromInt(stock.number_of_shares)), usd_to_cad_exchange_rate)
    ELSE Fmul(stock.quote, FromInt(stock.number_of_shares))

\* Iterator::sum over f64: left fold from 0.0 in list order.
RECURSIVE SumValues(_, _, _)
SumValues(stocks, rate, n) ==
    IF n = 0 THEN Zero
    ELSE Fadd(SumValues(stocks, rate, n - 1), calc_value_of_stock(stocks[n], rate))

calc_portfolio_val(stocks, usd_to_cad_exchange_rate) ==
    SumValues(stocks, usd_to_cad_exchange_rate, Len(stocks))

CalculationResult(symbol, shares, cost) ==
    [symbol |-> symbol, new_number_of_shares |-> shares, cost |-> cost]

\* Variant: the whole amount is taken as the cost, without the product.
determine_result_spend_all(stock, current_contribution_amount) ==
    LET shares_to_buy == Fdiv(current_contribution_amount, stock.quote)
    IN  CalculationResult(stock.symbol, ToInt(shares_to_buy),
                          current_contribution_amount)

determine_result_based_on_contrib_amount(stock, current_contribution_amount) ==
    LET shares_to_buy == Fdiv(current_contribution_amount, stock.quote)
    IN  CalculationResult(stock.symbol, ToInt(shares_to_buy),
                          Fmul(shares_to_buy, stock.quote))

\* Local new_number_of_shares of calc_number_of_shares_to_buy: the desired total shares.
DesiredShares(stock, total_value) ==
    LET target_allocation_as_decimal == Fdiv(stock.target_allocation, Hundred)
    IN  Fdiv(Fmul(target_allocation_as_decimal, total_value), stock.quote)

\* Local shares_to_buy of calc_number_of_shares_to_buy.
SharesToBuy(stock, total_value) ==
    Fsub(DesiredShares(stock, total_value), FromInt(stock.number_of_shares))

\* Variant: the fallback branch also takes a holding exactly at its target.
calc_number_of_shares_to_buy_at_target(stock, total_value, current_contribution_amount) ==
    LET shares_to_buy == SharesToBuy(stock, total_value)
        cost == Fmul(shares_to_buy, stock.quote)
    IN  IF Fgt(shares_to_buy, Zero) /\ Flt(cost, current_contribution_amount)
        THEN <<CalculationResult(stock.symbol, ToInt(shares_to_buy),
                                 Fmul(shares_to_buy, stock.quote))>>
        ELSE IF Fle(Zero, shares_to_buy)
        THEN <<determine_result_based_on_contrib_amount(stock, current_contribution_amount)>>
        ELSE <<>>

\* Option<CalculationResult> as a sequence of length 0 (None) or 1 (Some).
calc_number_of_shares_to_buy(stock, total_value, current_contribution_amount) ==
    LET shares_to_buy == SharesToBuy(stock, total_value)
        cost == Fmul(shares_to_buy, stock.quote)
    IN  IF Fgt(shares_to_buy, Zero) /\ Flt(cost, current_contribution_amount)
        THEN <<CalculationResult(stock.symbol, ToInt(shares_to_buy),
                                 Fmul(shares_to_buy, stock.quote))>>
        ELSE IF Fgt(shares_to_buy, Zero)
        THEN <<determine_result_based_on_contrib_amount(stock, current_contribution_amount)>>
        ELSE <<>>

\* data.stocks.iter().filter_map(...).collect()
RECURSIVE Candidates(_, _, _, _)
Candidates(stocks, total_value, amount, n) ==
    IF n = 0 THEN <<>>
    ELSE Candidates(stocks, total_value, amount, n - 1)
         \o calc_number_of_shares_to_buy(stocks[n], total_value, amount)

\* CalculationResult::partial_cmp: None exactly when a cost is NaN.
partial_cmp(a, b) ==
    IF IsNaN(a.cost) \/ IsNaN(b.cost) THEN "None"
    ELSE IF Flt(a.cost, b.cost) THEN "Less"
    ELSE IF Fgt(a.cost, b.cost) THEN "Greater"
    ELSE "Equal"

\* Insert r into the sorted sequence s after every element not greater than it.
RECURSIVE Insert(_, _)
Insert(s, r) ==
    IF s = <<>> THEN <<r>>
    ELSE IF partial_cmp(r, s[Len(s)]) = "Less"
         THEN Insert(SubSeq(s, 1, Len(s) - 1), r) \o <<s[Len(s)]>>
         ELSE s \o <<r>>

\* Variant: the results are left in holding order.
SortByCost_unsorted(rs, n) == rs

\* results.sort_by(..): a stable sort, ascending by cost.
RECURSIVE SortByCost(_, _)
SortByCost(rs, n) ==
    IF n = 0 THEN <<>> ELSE Insert(SortByCost(rs, n - 1), rs[n])

\* The comparator unwraps None: sorting two or more results panics when a cost is NaN.
SortPanics(rs) ==
    Len(rs) >= 2 /\ \E i \in 1..Len(rs) : IsNaN(rs[i].cost)

(* ------------------------------------------------------------------ *)
(* The program                                                         *)
(* ------------------------------------------------------------------ *)

VARIABLES pc, data, out, total_value, results,
          current_contribution_amount, idx, new_value

vars == <<pc, data, out, total_value, results,
          current_contribution_amount, idx, new_value>>

\* One line written to standard output.
Line(kind, symbol, shares, val) ==
    [kind |-> kind, symbol |-> symbol, shares |-> shares, val |-> val]
Text(kind) == Line(kind, "", 0, Zero)
Buy(kind, r) == Line(kind, r.symbol, r.new_number_of_shares, r.cost)

Init ==
    /\ pc = "start"
    /\ data = NoData
    /\ out = <<>>
    /\ total_value = Zero
    /\ results = <<>>
    /\ current_contribution_amount = Zero
    /\ idx = 0
    /\ new_value = Zero

\* fs::read_to_string fails: expect() panics.
ReadFails ==
    /\ pc = "start"
    /\ pc' = "abort_read"
    /\ UNCHANGED <<data, out, total_value, results, current_contribution_amount, idx, new_value>>

\* serde_json::from_str fails: main returns the error.
ParseFails ==
    /\ pc = "start"
    /\ pc' = "abort_parse"
    /\ UNCHANGED <<data, out, total_value, results, current_contribution_amount, idx, new_value>>

Load ==
    /\ pc = "start"
    /\ \E d \in DataSet : data' = d
    /\ pc' = "print_state"
    /\ UNCHANGED <<out, total_value, results, current_contribution_amount, idx, new_value>>

RECURSIVE AllocationLines(_, _, _, _)
AllocationLines(stocks, rate, total, n) ==
    IF n = 0 THEN <<>>
    ELSE AllocationLines(stocks, rate, total, n - 1)
         \o <<Line("allocation", stocks[n].symbol, stocks[n].number_of_shares,
                   Fmul(Fdiv(calc_value_of_stock(stocks[n], rate), total), Hundred))>>

print_current_portfolio_state ==
    /\ pc = "print_state"
    /\ LET total == calc_portfolio_val(data.stocks, data.usd_to_cad_exchange_rate)
       IN  out' = out \o <<Text("The portfolio state is the following:")>>
                      \o AllocationLines(data.stocks, data.usd_to_cad_exchange_rate,
                                         total, Len(data.stocks))
    /\ pc' = "contribute"
    /\ UNCHANGED <<data, total_value, results, current_contribution_amount, idx, new_value>>

\* Variant: the contribution is counted into the total, as the projection does.
RebalanceTotal_with_contribution(d) ==
    Fadd(calc_portfolio_val(d.stocks, d.usd_to_cad_exchange_rate), d.expected_contribution)

\* The total value print_where_to_contribute computes targets from.
RebalanceTotal(d) == calc_portfolio_val(d.stocks, d.usd_to_cad_exchange_rate)

\* main's heading, then print_where_to_contribute up to the first loop.
BuildResults ==
    /\ pc = "contribute"
    /\ LET amount == data.expected_contribution
           total == RebalanceTotal(data)
           rs == Candidates(data.stocks, total, amount, Len(data.stocks))
       IN  /\ current_contribution_amount' = amount
           /\ total_value' = total
           /\ IF SortPanics(rs)
              THEN /\ results' = rs
                   /\ out' = out \o <<Text("Figure out where to contribute:")>>
                   /\ pc' = "panic"
              ELSE /\ results' = SortByCost(rs, Len(rs))
                   /\ out' = out \o <<Text("Figure out where to contribute:"),
                                      Text("To fix allocations, make the following purchases")>>
                   /\ pc' = "pass1"
    /\ idx' = 1
    /\ UNCHANGED <<data, new_value>>

\* Variant: every result is reported, affordable or not.
FirstPassStep_unchecked ==
    /\ pc = "pass1"
    /\ idx <= Len(results)
    /\ out' = Append(out, Buy("fix", results[idx]))
    /\ current_contribution_amount' =
           Fsub(current_contribution_amount, results[idx].cost)
    /\ idx' = idx + 1
    /\ UNCHANGED <<pc, data, total_value, results, new_value>>

\* One iteration of `for result in results`.
FirstPassStep ==
    /\ pc = "pass1"
    /\ idx <= Len(results)
    /\ LET result == results[idx]
       IN  IF Fgt(result.cost, current_contribution_amount)
           THEN UNCHANGED <<out, current_contribution_amount>>
           ELSE /\ out' = Append(out, Buy("fix", result))
                /\ current_contribution_amount' =
                       Fsub(current_contribution_amount, result.cost)
    /\ idx' = idx + 1
    /\ UNCHANGED <<pc, data, total_value, results, new_value>>

FirstPassDone ==
    /\ pc = "pass1"
    /\ idx > Len(results)
    /\ out' = Append(out, Text("Use extra contribution cash to do the following"))
    /\ pc' = "pass2"
    /\ idx' = 1
    /\ UNCHANGED <<data, total_value, results, current_contribution_amount, new_value>>

\* One iteration of `for stock in data.stocks`.
SecondPassStep ==
    /\ pc = "pass2"
    /\ idx <= Len(data.stocks)
    /\ IF Fle(current_contribution_amount, Zero)
       THEN UNCHANGED <<out, current_contribution_amount>>
       ELSE LET result == determine_result_based_on_contrib_amount(
                              data.stocks[idx], current_contribution_amount)
            IN  /\ out' = Append(out, Buy("extra", result))
                /\ current_contribution_amount' =
                       Fsub(current_contribution_amount, result.cost)
    /\ idx' = idx + 1
    /\ UNCHANGED <<pc, data, total_value, results, new_value>>

SecondPassDone ==
    /\ pc = "pass2"
    /\ idx > Len(data.stocks)
    /\ pc' = "retire"
    /\ UNCHANGED <<data, out, total_value, results, current_contribution_amount, idx, new_value>>

\* main's heading, then print_how_close_to_retirement; of its figures the
\* model keeps new_value, the projection's starting value.
print_how_close_to_retirement ==
    /\ pc = "retire"
    /\ LET total == calc_portfolio_val(data.stocks, data.usd_to_cad_exchange_rate)
           nv == Fadd(total, data.expected_contribution)
       IN  /\ new_value' = nv
           /\ out' = out \o <<Text("Your distance to retirement:"),
                              Text("Assuming a withdrawal rate of"),
                              Line("You will have contributed", "", 0, nv),
                              Text("This means once you are")>>
    /\ pc' = "done"
    /\ UNCHANGED <<data, total_value, results, current_contribution_amount, idx>>

Next ==
    \/ ReadFails
    \/ ParseFails
    \/ Load
    \/ print_current_portfolio_state
    \/ BuildResults
    \/ FirstPassStep
    \/ FirstPassDone
    \/ SecondPassStep
    \/ SecondPassDone
    \/ print_how_close_to_retirement

Spec == Init /\ [][Next]_vars

(* ------------------------------------------------------------------ *)
(* Properties                                                          *)
(* ------------------------------------------------------------------ *)

FixLines == SelectSeq(out, LAMBDA l : l.kind = "fix")
ExtraLines == SelectSeq(out, LAMBDA l : l.kind = "extra")

\* Exact sum, in units of 2^-FracBits, of the finite costs of the lines ls[1..n].
RECURSIVE ExactCost(_, _)
ExactCost(ls, n) ==
    IF n = 0 THEN 0
    ELSE ExactCost(ls, n - 1) + (IF IsFin(ls[n].val) THEN ls[n].val.m ELSE 0)

Stocks == data.stocks
Budget == data.expected_contribution
PositiveQuotes == \A i \in 1..Len(Stocks) : Fgt(Stocks[i].quote, Zero)
NonZeroQuotes == \A i \in 1..Len(Stocks) : Stocks[i].quote # Zero
Built == pc \in {"pass1", "pass2", "retire", "done"}

\* C1: the costs reported in the first pass sum to at most the initial
\* contribution budget (a NaN cost is not counted against the budget).
C1_FirstPassWithinBudget ==
    ExactCost(FixLines, Len(FixLines)) <= Budget.m

\* C2: the first-pass recommendations are reported in non-decreasing cost
\* order: of two reported ones the earlier costs no more than the later.
C2_FirstPassSorted ==
    \A i, j \in 1..Len(FixLines) :
        i < j => Fle(FixLines[i].val, FixLines[j].val)

\* The sort moved the second holding's cheaper recommendation in front of the first's.
C2_Witness ==
    /\ Len(FixLines) = 2
    /\ FixLines[1].symbol = "B"
    /\ FixLines[2].symbol = "A"
    /\ Flt(FixLines[1].val, FixLines[2].val)

\* C3: a holding whose desired total shares are at most its current shares
\* has no first-pass candidate and no first-pass recommendation is reported
\* under its symbol.
C3_NoneAtOrAboveTarget ==
    Built =>
        \A i \in 1..Len(Stocks) :
            Fle(DesiredShares(Stocks[i], total_value), FromInt(Stocks[i].number_of_shares))
            => /\ \A k \in 1..Len(results) : results[k].symbol # Stocks[i].symbol
               /\ \A k \in 1..Len(FixLines) : FixLines[k].symbol # Stocks[i].symbol

\* The run is over, holding A sits at or above its target at a positive
\* quote, and the first pass reported a purchase of holding B.
C3_Witness ==
    /\ pc = "done"
    /\ Len(Stocks) = 2
    /\ Fgt(Stocks[1].quote, Zero)
    /\ Fle(DesiredShares(Stocks[1], total_value), FromInt(Stocks[1].number_of_shares))
    /\ Len(FixLines) = 1
    /\ FixLines[1].symbol = "B"

\* C4: each second-pass iteration takes the next holding in original order;
\* when the remaining budget is <= 0 it reports nothing and leaves the budget,
\* otherwise it reports remaining / quote shares (truncated) of that holding
\* at cost (remaining / quote) * quote and subtracts that cost.
C4_SecondPassStep ==
    [][(pc = "pass2" /\ idx <= Len(Stocks)) =>
          LET stock == Stocks[idx]
              amount == current_contribution_amount
              shares == Fdiv(amount, stock.quote)
              cost == Fmul(shares, stock.quote)
          IN  /\ idx' = idx + 1
              /\ IF Fle(amount, Zero)
                 THEN out' = out /\ current_contribution_amount' = amount
                 ELSE /\ out' = Append(out, Line("extra", stock.symbol, ToInt(shares), cost))
                      /\ current_contribution_amount' = Fsub(amount, cost)]_vars

\* The second pass reported holding A, then holding B from what A left over.
C4_Witness ==
    /\ pc = "pass2"
    /\ Len(ExtraLines) = 2
    /\ ExtraLines[1].symbol = "A"
    /\ ExtraLines[2].symbol = "B"
    /\ NonZeroQuotes

\* The price of one share in native currency, converted as calc_value_of_stock converts.
NativeQuote(stock, rate) == IF stock.is_usd THEN Fmul(stock.quote, rate) ELSE stock.quote

\* C5: every first-pass candidate, and so every first-pass recommendation, is
\* the one computed from the holding's price in native currency.
C5_CostInNativeCurrency ==
    Built =>
        \A k \in 1..Len(results) : \A i \in 1..Len(Stocks) :
            results[k].symbol = Stocks[i].symbol =>
                <<results[k]>> =
                    calc_number_of_shares_to_buy(
                        [Stocks[i] EXCEPT !.quote =
                             NativeQuote(Stocks[i], data.usd_to_cad_exchange_rate)],
                        total_value, Budget)

AllZeroValue ==
    \A i \in 1..Len(Stocks) :
        calc_value_of_stock(Stocks[i], data.usd_to_cad_exchange_rate) = Zero

\* C6: the projection's new_value is the rebalancer's total value plus the
\* contribution, and when every holding has zero value the rebalancer's total
\* is 0 and the first pass has no candidate and reports nothing.
C6_TotalExcludesContribution ==
    /\ (Built /\ AllZeroValue) =>
           total_value = Zero /\ results = <<>> /\ FixLines = <<>>
    /\ pc = "done" => new_value = Fadd(total_value, Budget)

\* One foreign holding, no shares, target 100%, contribution 10: nothing is
\* reported in the first pass and the projection starts from the contribution.
C6_Witness ==
    /\ pc = "done"
    /\ Len(Stocks) = 1
    /\ Stocks[1].is_usd
    /\ Stocks[1].quote = FromInt(10)
    /\ Stocks[1].number_of_shares = 0
    /\ Stocks[1].target_allocation = Hundred
    /\ Budget = FromInt(10)
    /\ FixLines = <<>>
    /\ new_value = FromInt(10)

\* C7: a failed read or parse ends the run with nothing printed, and a run
\* that loaded its input has no other error outcome.
C7_OnlyLoadErrors ==
    /\ pc \in {"abort_read", "abort_parse"} => out = <<>>
    /\ pc # "panic"

\* C8: with positive quotes, every holding with a positive share delta has a
\* candidate: the full delta at cost delta * quote when that cost fits the
\* budget, the affordable quantity otherwise; and no candidate costs more
\* than the budget.
C8_CandidateWithinBudget ==
    (Built /\ PositiveQuotes) =>
        \A i \in 1..Len(Stocks) :
            LET stock == Stocks[i]
                delta == SharesToBuy(stock, total_value)
                full == Fmul(delta, stock.quote)
                shares == Fdiv(Budget, stock.quote)
            IN  Fgt(delta, Zero) =>
                    \E k \in 1..Len(results) :
                        /\ results[k].symbol = stock.symbol
                        /\ results[k] =
                               IF Fle(full, Budget)
                               THEN CalculationResult(stock.symbol, ToInt(delta), full)
                               ELSE CalculationResult(stock.symbol, ToInt(shares),
                                                      Fmul(shares, stock.quote))
                        /\ Fle(results[k].cost, Budget)

\* C9: a first-pass iteration reports a candidate whose cost is <= the
\* remaining budget and subtracts that cost; it drops a candidate whose cost
\* is greater, leaving output, budget and the candidate list unchanged.
C9_FirstPassStep ==
    [][(pc = "pass1" /\ idx <= Len(results)) =>
          LET result == results[idx]
              amount == current_contribution_amount
          IN  /\ results' = results
              /\ Fle(result.cost, amount) =>
                     /\ out' = Append(out, Line("fix", result.symbol,
                                                result.new_number_of_shares, result.cost))
                     /\ current_contribution_amount' = Fsub(amount, result.cost)
              /\ Fgt(result.cost, amount) =>
                     /\ out' = out
                     /\ current_contribution_amount' = amount]_vars

\* Two candidates were gone through: the cheaper was reported, the other dropped.
C9_Witness ==
    /\ pc = "pass1"
    /\ idx = 3
    /\ Len(FixLines) = 1
    /\ FixLines[1].symbol = results[1].symbol
    /\ Fgt(results[2].cost, current_contribution_amount)
    /\ Fgt(current_contribution_amount, Zero)

\* C10: with non-zero quotes the second pass reports at most one
\* recommendation, for the first holding, after which the remaining budget is
\* exactly zero and the costs reported over both passes sum to the initial
\* budget.
C10_SecondPassSpendsAll ==
    (pc \in {"retire", "done"} /\ NonZeroQuotes) =>
        /\ Len(ExtraLines) <= 1
        /\ Len(ExtraLines) = 1 =>
               /\ ExtraLines[1].symbol = Stocks[1].symbol
               /\ current_contribution_amount = Zero
               /\ ExactCost(FixLines, Len(FixLines))
                      + ExactCost(ExtraLines, Len(ExtraLines)) = Budget.m

====
